---- MODULE Spec2Model ----
(***************************************************************************)
(* Authenticus POS backend: an Express server that relays HTTP requests to *)
(* the Stripe API and polls a payment intent processed on a card reader.   *)
(* The repository holds two variants of the server: src/server.js and      *)
(* src/unnamed/part_000 (which adds receipt_email and /cancel-payment).    *)
(*                                                                         *)
(* A handler runs without interruption from the arrival of its request to  *)
(* its first await, and from the completion of one await to the next       *)
(* (JavaScript run-to-completion), so each action below is one such        *)
(* segment.  Stripe and the reader are the environment: every outbound     *)
(* call stays in flight until the environment answers it, with a result    *)
(* or with an error.                                                       *)
(***************************************************************************)
EXTENDS Integers, FiniteSets, Sequences, TLC

\* ---- bounds of the model ----
\* the fetch, wait and non-succeeded counters are exact below MaxPolls and
\* saturate there (the poll loop itself is never stopped by the model)
MaxPolls == 3

\* ---- program constants ----
\* setTimeout(r, 1500) in poll, setTimeout(r, 1000) before collectInputs
POLL_DELAY_MS == 1500
COLLECT_DELAY_MS == 1000

\* the HTTP requests of one behaviour: two, which may overlap in any way
Req == {1, 2}

\* ---- JavaScript values ----
Undef == [t |-> "undefined"]
Null == [t |-> "null"]
\* a number, held in tenths so that non-integers exist: Num(15) is 1.5
Num(n) == [t |-> "number", x10 |-> n]
Str(s) == [t |-> "string", s |-> s]
EmptyObj == [k \in {} |-> Undef]

\* JavaScript truthiness (ToBoolean) on the values above; objects are truthy
Truthy(v) ==
    IF "t" \notin DOMAIN v THEN TRUE
    ELSE CASE v.t = "undefined" -> FALSE
           [] v.t = "null" -> FALSE
           [] v.t = "number" -> v.x10 # 0
           [] v.t = "string" -> v.s # ""
           [] OTHER -> TRUE

\* a || b
Or(a, b) == IF Truthy(a) THEN a ELSE b

\* a destructuring default: `x = d` takes d only when x is undefined
Default(v, d) == IF v = Undef THEN d ELSE v

\* { ...a, ...b }
Spread(a, b) ==
    [k \in DOMAIN a \cup DOMAIN b |-> IF k \in DOMAIN b THEN b[k] ELSE a[k]]

\* ---- request bodies ----
Amounts == {Undef, Num(0), Num(-10), Num(15), Num(1000)}
Emails == {Undef, Str(""), Str("a@x")}
ReceiptEmails == {Undef, Str("b@x")}
Metadatas == {Undef, [order |-> Str("o1")], [customer_email |-> Str("c@x")]}

CreateBodies ==
    [amount : Amounts, email : Emails, receipt_email : ReceiptEmails,
     metadata : Metadatas, currency : {Undef}]

\* the bodies of the create requests that run beside other requests
ConcurrentCreateBodies ==
    [amount : {Undef, Num(1000)}, email : {Undef, Str("a@x")},
     receipt_email : {Str("b@x")}, metadata : {Undef}, currency : {Undef}]

PaymentIntentId(n) == Str("pi_" \o ToString(n))

ProcessBodies == [payment_intent : {Undef, PaymentIntentId(1), PaymentIntentId(2)}]

\* a webhook delivery: its content type, whether its text parses as JSON,
\* and whether it carries a Stripe-Signature header
WebhookBodies ==
    [contentType : {"application/json", "text/plain"},
     wellFormed : BOOLEAN, signed : BOOLEAN]

NoBody == [none |-> TRUE]

\* ---- what the environment answers ----
ErrMsgs == {"api_error", "reader_busy"}
Statuses == {"processing", "canceled", "succeeded"}

NoResp == [statusCode |-> 0]
NoArgs == [none |-> TRUE]
NoAnswer == [call |-> "none"]
NoPi == [none |-> TRUE]

Variants == {"server.js", "part_000"}

VARIABLES
    variant,     \* which of the two server files is running
    route,       \* route[r]: the route request r came in on ("none": not yet arrived)
    body,        \* body[r]: req.body
    pc,          \* pc[r]: the await the handler of r is suspended at
    resp,        \* resp[r]: the response sent for r (NoResp: none yet)
    nresp,       \* nresp[r]: how many responses were sent for r
    creates,     \* creates[r]: stripe.paymentIntents.create calls made for r
    createArgs,  \* createArgs[r]: the parameters of that call
    procs,       \* procs[r]: terminal.readers.processPaymentIntent calls made for r
    procArg,     \* procArg[r]: the payment_intent that call named
    fetches,     \* fetches[r]: stripe.paymentIntents.retrieve calls made for r
    fetchArg,    \* fetchArg[r]: the identifier the last retrieve named
    waits,       \* waits[r]: timers of the poll loop that were started for r
    timer,       \* timer[r]: the delay in ms of the timer r waits on (0: none)
    collects,    \* collects[r]: terminal.readers.collectInputs calls made for r
    cancels,     \* cancels[r]: terminal.readers.cancelAction calls made for r
    pi,          \* pi[r]: the object the last retrieve of r returned
    created,     \* created[r]: the object the create call of r returned
    nonSucc,     \* nonSucc[r]: retrieves of r that returned a non-succeeded status
    seen,        \* seen[r]: the statuses the retrieves of r returned
    fetchErrs,   \* fetchErrs[r]: retrieves of r that raised an error
    errlog,      \* errlog[r]: the message of the last console.error of r
    answer,      \* answer[r]: the last answer of Stripe to a call of r
    nextId       \* Stripe: the number of the next payment intent it creates

vars ==
    <<variant, route, body, pc, resp, nresp, creates, createArgs, procs,
      procArg, fetches, fetchArg, waits, timer, collects, cancels, pi,
      created, nonSucc, seen, fetchErrs, errlog, answer, nextId>>

\* groups of variables, for the UNCHANGED clauses
reqVars == <<route, body>>
respVars == <<resp, nresp>>
createVars == <<creates, createArgs, created, nextId>>
readerVars == <<procs, procArg, collects, cancels>>
pollVars == <<fetches, fetchArg, waits, pi, nonSucc, seen, fetchErrs>>

Init ==
    /\ variant \in Variants
    /\ route = [r \in Req |-> "none"]
    /\ body = [r \in Req |-> NoBody]
    /\ pc = [r \in Req |-> "idle"]
    /\ resp = [r \in Req |-> NoResp]
    /\ nresp = [r \in Req |-> 0]
    /\ creates = [r \in Req |-> 0]
    /\ createArgs = [r \in Req |-> NoArgs]
    /\ procs = [r \in Req |-> 0]
    /\ procArg = [r \in Req |-> Undef]
    /\ fetches = [r \in Req |-> 0]
    /\ fetchArg = [r \in Req |-> Undef]
    /\ waits = [r \in Req |-> 0]
    /\ timer = [r \in Req |-> 0]
    /\ collects = [r \in Req |-> 0]
    /\ cancels = [r \in Req |-> 0]
    /\ pi = [r \in Req |-> NoPi]
    /\ created = [r \in Req |-> NoPi]
    /\ nonSucc = [r \in Req |-> 0]
    /\ seen = [r \in Req |-> {}]
    /\ fetchErrs = [r \in Req |-> 0]
    /\ errlog = [r \in Req |-> ""]
    /\ answer = [r \in Req |-> NoAnswer]
    /\ nextId = 1

\* a counter that is exact below MaxPolls and saturates there
Inc(n) == IF n < MaxPolls THEN n + 1 ELSE MaxPolls

\* res.status(code).json(b) / res.json(b)
Send(r, code, b) ==
    /\ resp' = [resp EXCEPT ![r] = [statusCode |-> code, body |-> b]]
    /\ nresp' = [nresp EXCEPT ![r] = @ + 1]

\* ---------------------------------------------------------------------------
\* POST /create-payment-intent
\* ---------------------------------------------------------------------------

\* const customerEmail = email || receipt_email || null   (part_000 only)
customerEmail(b) == Or(Or(b.email, b.receipt_email), Null)

\* the parameters src/server.js passes to stripe.paymentIntents.create
CreateParamsServer(b) ==
    [amount |-> b.amount,
     currency |-> Default(b.currency, Str("usd")),
     payment_method_types |-> "card_present",
     capture_method |-> "automatic",
     metadata |-> Default(b.metadata, EmptyObj),
     description |-> "Authenticus POS Sale",
     receipt_email |-> Or(b.email, Undef)]

\* the parameters part_000 passes to stripe.paymentIntents.create
CreateParamsPart000(b) ==
    [amount |-> b.amount,
     currency |-> Default(b.currency, Str("usd")),
     payment_method_types |-> "card_present",
     capture_method |-> "automatic",
     description |-> "Authenticus POS Sale",
     metadata |->
        Spread(Default(b.metadata, EmptyObj),
               IF Truthy(customerEmail(b))
               THEN [customer_email |-> customerEmail(b)]
               ELSE EmptyObj),
     receipt_email |-> Or(customerEmail(b), Undef)]

CreateParams(v, b) ==
    IF v = "server.js" THEN CreateParamsServer(b) ELSE CreateParamsPart000(b)

\* a bug: the guard written as `amount === null`, which lets a body without
\* amount through
AmountMissingNullOnly(b) == b.amount = Null

\* if (!amount) return res.status(400)...
AmountMissing(b) == ~Truthy(b.amount)

\* the request arrives; the handler runs up to its first await
CreateArrives(r, bodies) ==
    /\ route[r] = "none"
    /\ \E b \in bodies :
        /\ route' = [route EXCEPT ![r] = "create"]
        /\ body' = [body EXCEPT ![r] = b]
        /\ IF AmountMissing(b)
           THEN /\ Send(r, 400, [error |-> Str("Missing amount")])
                /\ pc' = [pc EXCEPT ![r] = "done"]
                /\ UNCHANGED <<creates, createArgs>>
           ELSE /\ creates' = [creates EXCEPT ![r] = @ + 1]
                /\ createArgs' = [createArgs EXCEPT ![r] = CreateParams(variant, b)]
                /\ pc' = [pc EXCEPT ![r] = "awaitCreate"]
                /\ UNCHANGED respVars
    /\ UNCHANGED <<variant, created, nextId, readerVars, pollVars, timer,
                   errlog, answer>>

\* a bug: paymentIntent held in a variable shared by all requests and read
\* before this request's own assignment, so that the answer carries the id
\* of the intent created before
CreateResponseShared(r, paymentIntent) ==
    [payment_intent |->
        IF nextId > 1 THEN PaymentIntentId(nextId - 1) ELSE paymentIntent.id]

\* res.json({ payment_intent: paymentIntent.id })
CreateResponse(r, paymentIntent) == [payment_intent |-> paymentIntent.id]

\* Stripe answers the create call with a new payment intent
CreateReturns(r) ==
    /\ pc[r] = "awaitCreate"
    /\ LET paymentIntent ==
            [id |-> PaymentIntentId(nextId), status |-> Str("requires_payment_method")]
       IN /\ created' = [created EXCEPT ![r] = paymentIntent]
          /\ Send(r, 200, CreateResponse(r, paymentIntent))
    /\ answer' = [answer EXCEPT ![r] = [call |-> "create", ok |-> TRUE]]
    /\ nextId' = nextId + 1
    /\ pc' = [pc EXCEPT ![r] = "done"]
    /\ UNCHANGED <<variant, reqVars, creates, createArgs, readerVars, pollVars,
                   timer, errlog>>

\* a bug: a fixed text in place of err.message
ErrorResponseGeneric(msg) == [error |-> Str("Internal Server Error")]

\* res.status(500).json({ error: err.message })
ErrorResponse(msg) == [error |-> Str(msg)]

\* catch (err) { console.error(..., err.message); res.status(500).json(...) }
\* the catch block that ends each of the three async handlers
Catch(r, msg) ==
    /\ errlog' = [errlog EXCEPT ![r] = msg]
    /\ Send(r, 500, ErrorResponse(msg))
    /\ pc' = [pc EXCEPT ![r] = "done"]

\* Stripe rejects the create call
CreateFails(r) ==
    /\ pc[r] = "awaitCreate"
    /\ \E msg \in ErrMsgs :
        /\ answer' = [answer EXCEPT ![r] = [call |-> "create", error |-> msg]]
        /\ Catch(r, msg)
    /\ UNCHANGED <<variant, reqVars, createVars, readerVars, pollVars, timer>>

\* ---------------------------------------------------------------------------
\* POST /process-on-reader
\* ---------------------------------------------------------------------------

\* a bug: the guard written as `payment_intent === null`
PaymentIntentMissingNullOnly(b) == b.payment_intent = Null

\* if (!payment_intent) return res.status(400)...
PaymentIntentMissing(b) == ~Truthy(b.payment_intent)

\* a feature the server does not have: a lease on the reader, so that a
\* request that finds another one using the reader is turned away
ProcessArrivesLocked(r) ==
    /\ route[r] = "none"
    /\ \E b \in ProcessBodies :
        /\ route' = [route EXCEPT ![r] = "process"]
        /\ body' = [body EXCEPT ![r] = b]
        /\ IF PaymentIntentMissing(b)
           THEN /\ Send(r, 400, [error |-> Str("Missing payment_intent")])
                /\ pc' = [pc EXCEPT ![r] = "done"]
                /\ UNCHANGED <<procs, procArg>>
           ELSE IF \E q \in Req \ {r} :
                        pc[q] \in {"awaitProcess", "awaitRetrieve", "pollDelay",
                                   "collectDelay", "awaitCollect"}
           THEN /\ Send(r, 409, [error |-> Str("Reader busy")])
                /\ pc' = [pc EXCEPT ![r] = "done"]
                /\ UNCHANGED <<procs, procArg>>
           ELSE /\ procs' = [procs EXCEPT ![r] = @ + 1]
                /\ procArg' = [procArg EXCEPT ![r] = b.payment_intent]
                /\ pc' = [pc EXCEPT ![r] = "awaitProcess"]
                /\ UNCHANGED respVars
    /\ UNCHANGED <<variant, createVars, collects, cancels, pollVars, timer,
                   errlog, answer>>

\* the request arrives; the handler runs up to its first await
ProcessArrives(r) ==
    /\ route[r] = "none"
    /\ \E b \in ProcessBodies :
        /\ route' = [route EXCEPT ![r] = "process"]
        /\ body' = [body EXCEPT ![r] = b]
        /\ IF PaymentIntentMissing(b)
           THEN /\ Send(r, 400, [error |-> Str("Missing payment_intent")])
                /\ pc' = [pc EXCEPT ![r] = "done"]
                /\ UNCHANGED <<procs, procArg>>
           ELSE /\ procs' = [procs EXCEPT ![r] = @ + 1]
                /\ procArg' = [procArg EXCEPT ![r] = b.payment_intent]
                /\ pc' = [pc EXCEPT ![r] = "awaitProcess"]
                /\ UNCHANGED respVars
    /\ UNCHANGED <<variant, createVars, collects, cancels, pollVars, timer,
                   errlog, answer>>

\* poll(): const pi = await stripe.paymentIntents.retrieve(payment_intent)
Poll(r) ==
    /\ fetches' = [fetches EXCEPT ![r] = Inc(@)]
    /\ fetchArg' = [fetchArg EXCEPT ![r] = body[r].payment_intent]
    /\ pc' = [pc EXCEPT ![r] = "awaitRetrieve"]

\* the reader accepted the instruction: the handler starts polling
ProcessReturns(r) ==
    /\ pc[r] = "awaitProcess"
    /\ answer' = [answer EXCEPT ![r] = [call |-> "processPaymentIntent", ok |-> TRUE]]
    /\ Poll(r)
    /\ UNCHANGED <<variant, reqVars, respVars, createVars, readerVars, waits,
                   pi, nonSucc, seen, fetchErrs, timer, errlog>>

\* a bug: the instruction wrapped in a try of its own, whose catch logs
\* the error and lets the handler go on to poll
ProcessFailsThenPolls(r) ==
    /\ pc[r] = "awaitProcess"
    /\ \E msg \in ErrMsgs :
        /\ answer' = [answer EXCEPT ![r] =
                        [call |-> "processPaymentIntent", error |-> msg]]
        /\ errlog' = [errlog EXCEPT ![r] = msg]
    /\ Poll(r)
    /\ UNCHANGED <<variant, reqVars, respVars, createVars, readerVars, waits,
                   pi, nonSucc, seen, fetchErrs, timer>>

\* the instruction to the reader raised: the outer catch answers 500
ProcessFails(r) ==
    /\ pc[r] = "awaitProcess"
    /\ \E msg \in ErrMsgs :
        /\ answer' = [answer EXCEPT ![r] =
                        [call |-> "processPaymentIntent", error |-> msg]]
        /\ Catch(r, msg)
    /\ UNCHANGED <<variant, reqVars, createVars, readerVars, pollVars, timer>>

\* a bug: the loop ended on any final status, not on succeeded alone
PollDoneOnAnyFinal(p) == p.status \in {Str("succeeded"), Str("canceled")}

\* if (pi.status === 'succeeded') return pi
PollDone(p) == p.status = Str("succeeded")

\* a bug: the answer built from the request's identifier and a literal
\* status, not from the object the last fetch returned
ProcessResponseRebuilt(result) ==
    [success |-> TRUE,
     payment_intent |-> [id |-> result.id, status |-> Str("processing")]]

\* res.json({ success: true, payment_intent: result })
ProcessResponse(result) == [success |-> TRUE, payment_intent |-> result]

\* if (result.status === 'succeeded') { await new Promise(... 1000) ... }
CollectWanted(result) == result.status = Str("succeeded")

\* a status fetch returns.  Either the poll loop ends: the handler answers
\* and, the result being succeeded, starts the 1 s timer before the
\* on-reader prompt; or it starts the 1.5 s timer before the next fetch
RetrieveReturns(r) ==
    /\ pc[r] = "awaitRetrieve"
    /\ \E st \in Statuses :
        LET p == [id |-> fetchArg[r], status |-> Str(st)]
        IN /\ pi' = [pi EXCEPT ![r] = p]
           /\ answer' = [answer EXCEPT ![r] = [call |-> "retrieve", ok |-> TRUE]]
           /\ seen' = [seen EXCEPT ![r] = @ \cup {st}]
           /\ nonSucc' = [nonSucc EXCEPT ![r] = IF st = "succeeded" THEN @ ELSE Inc(@)]
           /\ IF PollDone(p)
              THEN /\ Send(r, 200, ProcessResponse(p))
                   /\ IF CollectWanted(p)
                      THEN /\ timer' = [timer EXCEPT ![r] = COLLECT_DELAY_MS]
                           /\ pc' = [pc EXCEPT ![r] = "collectDelay"]
                      ELSE /\ pc' = [pc EXCEPT ![r] = "done"]
                           /\ UNCHANGED timer
                   /\ UNCHANGED waits
              ELSE /\ waits' = [waits EXCEPT ![r] = Inc(@)]
                   /\ timer' = [timer EXCEPT ![r] = POLL_DELAY_MS]
                   /\ pc' = [pc EXCEPT ![r] = "pollDelay"]
                   /\ UNCHANGED respVars
    /\ UNCHANGED <<variant, reqVars, createVars, readerVars, fetches, fetchArg,
                   fetchErrs, errlog>>

\* a bug: the fetch wrapped in a try inside poll, whose catch logs the error
\* and lets the loop wait and fetch again
RetrieveFailsRetries(r) ==
    /\ pc[r] = "awaitRetrieve"
    /\ \E msg \in ErrMsgs :
        /\ answer' = [answer EXCEPT ![r] = [call |-> "retrieve", error |-> msg]]
        /\ errlog' = [errlog EXCEPT ![r] = msg]
    /\ fetchErrs' = [fetchErrs EXCEPT ![r] = Inc(@)]
    /\ waits' = [waits EXCEPT ![r] = Inc(@)]
    /\ timer' = [timer EXCEPT ![r] = POLL_DELAY_MS]
    /\ pc' = [pc EXCEPT ![r] = "pollDelay"]
    /\ UNCHANGED <<variant, reqVars, respVars, createVars, readerVars, fetches,
                   fetchArg, pi, nonSucc, seen>>

\* a status fetch raises: poll() rejects, `await poll()` throws inside the
\* outer try, and the outer catch answers 500
RetrieveFails(r) ==
    /\ pc[r] = "awaitRetrieve"
    /\ \E msg \in ErrMsgs :
        /\ answer' = [answer EXCEPT ![r] = [call |-> "retrieve", error |-> msg]]
        /\ Catch(r, msg)
    /\ fetchErrs' = [fetchErrs EXCEPT ![r] = Inc(@)]
    /\ UNCHANGED <<variant, reqVars, createVars, readerVars, fetches, fetchArg,
                   waits, pi, nonSucc, seen, timer>>

\* the 1.5 s timer fires: return poll()
PollTimerFires(r) ==
    /\ pc[r] = "pollDelay"
    /\ timer' = [timer EXCEPT ![r] = 0]
    /\ Poll(r)
    /\ UNCHANGED <<variant, reqVars, respVars, createVars, readerVars, waits,
                   pi, nonSucc, seen, fetchErrs, errlog, answer>>

\* the 1 s timer after the response fires: collectInputs is called
CollectTimerFires(r) ==
    /\ pc[r] = "collectDelay"
    /\ timer' = [timer EXCEPT ![r] = 0]
    /\ collects' = [collects EXCEPT ![r] = @ + 1]
    /\ pc' = [pc EXCEPT ![r] = "awaitCollect"]
    /\ UNCHANGED <<variant, reqVars, respVars, createVars, procs, procArg,
                   cancels, pollVars, errlog, answer>>

\* collectInputs returns: its result is logged
CollectReturns(r) ==
    /\ pc[r] = "awaitCollect"
    /\ answer' = [answer EXCEPT ![r] = [call |-> "collectInputs", ok |-> TRUE]]
    /\ pc' = [pc EXCEPT ![r] = "done"]
    /\ UNCHANGED <<variant, reqVars, respVars, createVars, readerVars,
                   pollVars, timer, errlog>>

\* a bug: no inner try, so that the error of collectInputs reaches the
\* outer catch, which answers a second time
CollectFailsOuterCatch(r) ==
    /\ pc[r] = "awaitCollect"
    /\ \E msg \in ErrMsgs :
        /\ answer' = [answer EXCEPT ![r] = [call |-> "collectInputs", error |-> msg]]
        /\ Catch(r, msg)
    /\ UNCHANGED <<variant, reqVars, createVars, readerVars, pollVars, timer>>

\* a bug: the inner catch asks the reader again
CollectFailsRetries(r) ==
    /\ pc[r] = "awaitCollect"
    /\ \E msg \in ErrMsgs :
        /\ answer' = [answer EXCEPT ![r] = [call |-> "collectInputs", error |-> msg]]
        /\ errlog' = [errlog EXCEPT ![r] = msg]
    /\ collects' = [collects EXCEPT ![r] = Inc(@)]
    /\ UNCHANGED <<variant, reqVars, respVars, createVars, procs, procArg,
                   cancels, pollVars, timer, pc>>

\* collectInputs raises: the inner catch logs the error and nothing else
CollectFails(r) ==
    /\ pc[r] = "awaitCollect"
    /\ \E msg \in ErrMsgs :
        /\ answer' = [answer EXCEPT ![r] = [call |-> "collectInputs", error |-> msg]]
        /\ errlog' = [errlog EXCEPT ![r] = msg]
    /\ pc' = [pc EXCEPT ![r] = "done"]
    /\ UNCHANGED <<variant, reqVars, respVars, createVars, readerVars,
                   pollVars, timer>>

\* ---------------------------------------------------------------------------
\* POST /cancel-payment
\* ---------------------------------------------------------------------------

\* res.status(404).json({ error: 'Route not found', path: req.path })
NotFoundResponse(path) == [error |-> Str("Route not found"), path |-> Str(path)]

\* part_000 calls cancelAction on the reader; src/server.js has no such
\* route, and the request falls through to its fallback, which answers 404
CancelArrives(r) ==
    /\ route[r] = "none"
    /\ route' = [route EXCEPT ![r] = "cancel"]
    /\ IF variant = "part_000"
       THEN /\ cancels' = [cancels EXCEPT ![r] = @ + 1]
            /\ pc' = [pc EXCEPT ![r] = "awaitCancel"]
            /\ UNCHANGED respVars
       ELSE /\ Send(r, 404, NotFoundResponse("/cancel-payment"))
            /\ pc' = [pc EXCEPT ![r] = "done"]
            /\ UNCHANGED cancels
    /\ UNCHANGED <<variant, body, createVars, procs, procArg, collects,
                   pollVars, timer, errlog, answer>>

\* a bug: the answer without its message
CancelResponseBare == [success |-> TRUE]

\* res.json({ success: true, message: 'Payment cancelled on reader' })
CancelResponse == [success |-> TRUE, message |-> Str("Payment cancelled on reader")]

\* a bug (or a feature the server does not have): a cancel that succeeds
\* ends the poll loops in progress, answering their requests with a failure
CancelReturnsStopsPolls(r) ==
    /\ pc[r] = "awaitCancel"
    /\ answer' = [answer EXCEPT ![r] = [call |-> "cancelAction", ok |-> TRUE]]
    /\ resp' = [q \in Req |->
                 IF q = r THEN [statusCode |-> 200, body |-> CancelResponse]
                 ELSE IF pc[q] \in {"awaitRetrieve", "pollDelay"}
                      THEN [statusCode |-> 500, body |-> ErrorResponse("canceled")]
                      ELSE resp[q]]
    /\ nresp' = [q \in Req |->
                  IF q = r \/ pc[q] \in {"awaitRetrieve", "pollDelay"}
                  THEN nresp[q] + 1 ELSE nresp[q]]
    /\ pc' = [q \in Req |->
               IF q = r \/ pc[q] \in {"awaitRetrieve", "pollDelay"}
               THEN "done" ELSE pc[q]]
    /\ timer' = [q \in Req |-> IF pc[q] = "pollDelay" THEN 0 ELSE timer[q]]
    /\ UNCHANGED <<variant, reqVars, createVars, readerVars, pollVars, errlog>>

CancelReturns(r) ==
    /\ pc[r] = "awaitCancel"
    /\ answer' = [answer EXCEPT ![r] = [call |-> "cancelAction", ok |-> TRUE]]
    /\ Send(r, 200, CancelResponse)
    /\ pc' = [pc EXCEPT ![r] = "done"]
    /\ UNCHANGED <<variant, reqVars, createVars, readerVars, pollVars, timer,
                   errlog>>

CancelFails(r) ==
    /\ pc[r] = "awaitCancel"
    /\ \E msg \in ErrMsgs :
        /\ answer' = [answer EXCEPT ![r] = [call |-> "cancelAction", error |-> msg]]
        /\ Catch(r, msg)
    /\ UNCHANGED <<variant, reqVars, createVars, readerVars, pollVars, timer>>

\* ---------------------------------------------------------------------------
\* POST /webhook
\* ---------------------------------------------------------------------------

\* app.use(bodyParser.json()): a body sent as application/json is parsed, and
\* one that does not parse is refused before any route runs
JsonParserRejects(b) == b.contentType = "application/json" /\ ~b.wellFormed

\* a bug (or a feature the stub does not have): deliveries without a
\* signature are refused
WebhookResponseSigned(b) ==
    IF b.signed THEN [received |-> TRUE] ELSE [error |-> Str("Invalid signature")]

\* res.json({ received: true })
WebhookResponse(b) == [received |-> TRUE]

WebhookArrives(r) ==
    /\ route[r] = "none"
    /\ \E b \in WebhookBodies :
        /\ route' = [route EXCEPT ![r] = "webhook"]
        /\ body' = [body EXCEPT ![r] = b]
        /\ IF JsonParserRejects(b)
           THEN Send(r, 400, [parseError |-> TRUE])
           ELSE Send(r, 200, WebhookResponse(b))
    /\ pc' = [pc EXCEPT ![r] = "done"]
    /\ UNCHANGED <<variant, createVars, readerVars, pollVars, timer, errlog,
                   answer>>

\* ---------------------------------------------------------------------------

Next ==
    \E r \in Req :
        \/ CreateArrives(r, ConcurrentCreateBodies)
        \/ CreateReturns(r)
        \/ CreateFails(r)
        \/ ProcessArrives(r)
        \/ ProcessReturns(r)
        \/ ProcessFails(r)
        \/ RetrieveReturns(r)
        \/ RetrieveFails(r)
        \/ PollTimerFires(r)
        \/ CollectTimerFires(r)
        \/ CollectReturns(r)
        \/ CollectFails(r)
        \/ CancelArrives(r)
        \/ CancelReturns(r)
        \/ CancelFails(r)
        \/ WebhookArrives(r)

Spec == Init /\ [][Next]_vars

\* one create request, over every body: the parameters the handler builds
\* are a function of the body alone
NextCreate ==
    \/ CreateArrives(1, CreateBodies)
    \/ CreateReturns(1)
    \/ CreateFails(1)

SpecCreate == Init /\ [][NextCreate]_vars

\* a step of request r that is not the arrival of r: an answer of Stripe
\* comes in or a timer fires
Progress(r) ==
    \/ CreateReturns(r) \/ CreateFails(r)
    \/ ProcessReturns(r) \/ ProcessFails(r)
    \/ RetrieveReturns(r) \/ RetrieveFails(r)
    \/ PollTimerFires(r) \/ CollectTimerFires(r)
    \/ CollectReturns(r) \/ CollectFails(r)
    \/ CancelReturns(r) \/ CancelFails(r)

\* every call is answered and every timer fires
FairSpec == Spec /\ \A r \in Req : WF_vars(Progress(r))

\* ---------------------------------------------------------------------------
\* Properties
\* ---------------------------------------------------------------------------

IsCreate(r) == route[r] = "create"
IsProcess(r) == route[r] = "process"
HasError(b) == "error" \in DOMAIN b

\* C1: a create request whose body has no amount is answered 400 with an
\* error field, and no create call is ever made for it
C1_MissingAmountRejected ==
    \A r \in Req :
        (IsCreate(r) /\ body[r].amount = Undef) =>
            /\ resp[r].statusCode = 400
            /\ HasError(resp[r].body)
            /\ creates[r] = 0
            /\ created[r] = NoPi

C1_Witness ==
    \E r \in Req :
        /\ IsCreate(r) /\ body[r].amount = Undef
        /\ resp[r].statusCode = 400
        /\ \E q \in Req : q # r /\ pc[q] = "awaitCreate"

\* C2: a create request whose create call returned without error is
\* answered with exactly the id of the object that its own call returned,
\* and two such requests never carry the same id
C2_IdPassThrough ==
    /\ \A r \in Req :
        (IsCreate(r) /\ answer[r] = [call |-> "create", ok |-> TRUE]) =>
            /\ resp[r].statusCode = 200
            /\ resp[r].body = [payment_intent |-> created[r].id]
    /\ \A r, q \in Req :
        (r # q /\ IsCreate(r) /\ IsCreate(q)
            /\ resp[r].statusCode = 200 /\ resp[q].statusCode = 200) =>
            resp[r].body.payment_intent # resp[q].body.payment_intent

\* the create call of request 1 was answered after that of request 2,
\* which was made while the first was in flight or before it
C2_Witness ==
    /\ IsCreate(1) /\ IsCreate(2)
    /\ resp[1].statusCode = 200 /\ resp[2].statusCode = 200
    /\ resp[1].body.payment_intent = PaymentIntentId(2)
    /\ resp[2].body.payment_intent = PaymentIntentId(1)

\* C3: when email and receipt_email are both supplied, the address sent to
\* the processor, as receipt_email and as metadata.customer_email, is email;
\* receipt_email is the address only when email is absent or empty; and with
\* both absent no receipt address is sent and the metadata is the caller's
C3_EmailPrecedence ==
    \A r \in Req :
        (IsCreate(r) /\ creates[r] = 1) =>
            LET b == body[r]
                a == createArgs[r]
                callerMeta == Default(b.metadata, EmptyObj)
            IN /\ (Truthy(b.email) /\ Truthy(b.receipt_email)) =>
                    /\ a.receipt_email = b.email
                    /\ "customer_email" \in DOMAIN a.metadata
                    /\ a.metadata.customer_email = b.email
               /\ (Truthy(b.receipt_email) /\ a.receipt_email = b.receipt_email) =>
                    ~Truthy(b.email)
               /\ (~Truthy(b.email) /\ ~Truthy(b.receipt_email)) =>
                    /\ a.receipt_email = Undef
                    /\ a.metadata = callerMeta

\* the same statement, of part_000 alone
C3_EmailPrecedencePart000 == variant = "part_000" => C3_EmailPrecedence

Polling(r) == pc[r] \in {"awaitRetrieve", "pollDelay"}
Succeeded(r) == IsProcess(r) /\ resp[r].statusCode = 200
IsErr(a, c) == a.call = c /\ "error" \in DOMAIN a

\* C4: a request that gets non-succeeded statuses on fetches 1..N-1 and
\* succeeded on fetch N answers after exactly N fetches, with one 1.5 s wait
\* between consecutive fetches, none after the Nth, and no fetch after the
\* answer (N = nonSucc + 1; the counters are exact below MaxPolls)
C4_ExactlyNFetches ==
    \A r \in Req :
        IsProcess(r) =>
            /\ (pc[r] = "pollDelay") <=> (timer[r] = 1500)
            /\ (fetches[r] < MaxPolls) =>
                /\ (pc[r] = "awaitRetrieve") =>
                        (fetches[r] = nonSucc[r] + 1 /\ waits[r] = nonSucc[r])
                /\ (pc[r] = "pollDelay") =>
                        (fetches[r] = nonSucc[r] /\ waits[r] = nonSucc[r])
                /\ Polling(r) => (resp[r] = NoResp /\ "succeeded" \notin seen[r])
                /\ Succeeded(r) =>
                        /\ "succeeded" \in seen[r]
                        /\ fetches[r] = nonSucc[r] + 1
                        /\ waits[r] = fetches[r] - 1
                        /\ ~Polling(r)

\* succeeded on the second fetch, after processing on the first
C4_Witness ==
    \E r \in Req :
        /\ Succeeded(r)
        /\ seen[r] = {"processing", "succeeded"}
        /\ fetches[r] = 2 /\ fetches[r] < MaxPolls
        /\ waits[r] = 1
        /\ pc[r] = "done"

\* C5 (the claim as stated): a request whose every fetch is answered
\* canceled stops polling and sends a failure response
C5_CanceledTerminates ==
    \A r \in Req :
        (IsProcess(r) /\ pc[r] = "awaitRetrieve") ~>
            (resp[r].statusCode >= 400 \/ seen[r] \ {"canceled"} # {})

\* C6: in part_000 a cancel request makes exactly one cancelAction call and,
\* when the call does not raise, is answered {success: true, message:
\* "Payment cancelled on reader"} whatever the other request is doing; when
\* it raises, the answer is 500 with the processor's message
C6_CancelAlwaysSucceeds ==
    \A r \in Req :
        (route[r] = "cancel" /\ variant = "part_000") =>
            /\ cancels[r] = 1
            /\ procs[r] = 0 /\ fetches[r] = 0 /\ collects[r] = 0 /\ creates[r] = 0
            /\ (answer[r] = NoAnswer) => (pc[r] = "awaitCancel" /\ resp[r] = NoResp)
            /\ (answer[r] = [call |-> "cancelAction", ok |-> TRUE]) =>
                    resp[r] = [statusCode |-> 200,
                               body |-> [success |-> TRUE,
                                         message |-> Str("Payment cancelled on reader")]]
            /\ IsErr(answer[r], "cancelAction") =>
                    resp[r] = [statusCode |-> 500,
                               body |-> [error |-> Str(answer[r].error)]]

\* a cancel answered with success while the other request is polling
C6_Witness ==
    \E r, q \in Req :
        /\ route[r] = "cancel" /\ resp[r].statusCode = 200
        /\ IsProcess(q) /\ Polling(q) /\ fetches[q] = 2

C8_MissingPaymentIntentRejected ==
    \A r \in Req :
        (IsProcess(r) /\ body[r].payment_intent = Undef) =>
            /\ resp[r].statusCode = 400
            /\ HasError(resp[r].body)
            /\ procs[r] = 0 /\ fetches[r] = 0 /\ collects[r] = 0
            /\ pc[r] = "done"

C8_Witness ==
    \E r, q \in Req :
        /\ IsProcess(r) /\ body[r].payment_intent = Undef
        /\ resp[r].statusCode = 400
        /\ IsProcess(q) /\ procs[q] = 1

\* C9: when the process instruction to the reader raises, the request is
\* answered 500 with the processor's message, and no status fetch and no
\* collect-inputs request is made for it
C9_ProcessErrorBeforePolling ==
    \A r \in Req :
        (IsProcess(r) /\ IsErr(answer[r], "processPaymentIntent")) =>
            /\ resp[r] = [statusCode |-> 500, body |-> [error |-> Str(answer[r].error)]]
            /\ fetches[r] = 0 /\ waits[r] = 0 /\ collects[r] = 0
            /\ procs[r] = 1
            /\ pc[r] = "done"

C9_Witness ==
    \E r \in Req :
        /\ IsProcess(r) /\ IsErr(answer[r], "processPaymentIntent")
        /\ resp[r].statusCode = 500
        /\ resp[r].body.error = Str("reader_busy")

\* C10: when the create call raises, the answer is 500 with the processor's
\* message unchanged; a request makes at most one create call
C10_CreateErrorNoRetry ==
    \A r \in Req :
        /\ creates[r] <= 1
        /\ (IsCreate(r) /\ IsErr(answer[r], "create")) =>
            /\ resp[r] = [statusCode |-> 500, body |-> [error |-> Str(answer[r].error)]]
            /\ creates[r] = 1
            /\ created[r] = NoPi
            /\ pc[r] = "done"

C10_Witness ==
    \E r, q \in Req :
        /\ IsCreate(r) /\ IsErr(answer[r], "create")
        /\ resp[r].body = [error |-> Str("api_error")]
        /\ IsCreate(q) /\ resp[q].statusCode = 200

\* C11: the success response {success: true, payment_intent: X} is sent only
\* when the most recent status fetch of the request returned an object with
\* status succeeded, and X is that object; no request whose last observed
\* status is anything else has a success response
C11_SuccessOnlyOnSucceeded ==
    \A r \in Req :
        /\ Succeeded(r) =>
            /\ pi[r] # NoPi
            /\ pi[r].status = Str("succeeded")
            /\ pi[r].id = body[r].payment_intent
            /\ resp[r].body = [success |-> TRUE, payment_intent |-> pi[r]]
            /\ fetchErrs[r] = 0
        /\ (IsProcess(r) /\ pi[r] # NoPi /\ pi[r].status # Str("succeeded")) =>
            resp[r].statusCode # 200

\* a success response after a canceled and then a succeeded status
C11_Witness ==
    \E r \in Req :
        /\ Succeeded(r)
        /\ seen[r] = {"canceled", "succeeded"}
        /\ resp[r].body.payment_intent.status = Str("succeeded")
        /\ resp[r].body.payment_intent.id = PaymentIntentId(2)

\* C12: the collect-inputs request is made only after the success response
\* of the same request was sent and the 1 s timer fired, at most once per
\* request, and never for a request answered 400 or 500
C12_CollectAfterSuccess ==
    /\ [](\A r \in Req :
            /\ collects[r] <= 1
            /\ (collects[r] = 1) => (Succeeded(r) /\ pc[r] \in {"awaitCollect", "done"})
            /\ (pc[r] = "collectDelay") <=> (timer[r] = 1000)
            /\ (pc[r] = "collectDelay") => (Succeeded(r) /\ collects[r] = 0)
            /\ (resp[r].statusCode \in {400, 500}) => collects[r] = 0)
    /\ [][\A r \in Req :
            (collects'[r] # collects[r]) =>
                /\ pc[r] = "collectDelay" /\ timer[r] = 1000
                /\ Succeeded(r) /\ nresp[r] = 1
                /\ resp'[r] = resp[r]]_vars

\* the collect-inputs request of one request in flight, and a request that
\* was answered 500 beside it
C12_Witness ==
    \E r, q \in Req :
        /\ IsProcess(r) /\ pc[r] = "awaitCollect" /\ collects[r] = 1
        /\ IsProcess(q) /\ resp[q].statusCode = 500 /\ fetches[q] = 2

\* C13: an error of the collect-inputs request leaves the response that was
\* sent as it is: every request gets at most one response, a response once
\* sent never changes, and a request answered with success is never
\* answered 500 afterwards
C13_OneResponse ==
    /\ [](\A r \in Req :
            /\ nresp[r] <= 1
            /\ (nresp[r] = 0) <=> (resp[r] = NoResp)
            /\ (IsProcess(r) /\ IsErr(answer[r], "collectInputs")) =>
                    /\ Succeeded(r)
                    /\ resp[r].body = [success |-> TRUE, payment_intent |-> pi[r]]
                    /\ errlog[r] = answer[r].error
                    /\ pc[r] = "done")
    /\ [][\A r \in Req :
            (resp[r] # NoResp) => (resp'[r] = resp[r] /\ nresp'[r] = nresp[r])]_vars

\* a request answered with success whose collect-inputs request raised
C13_Witness ==
    \E r \in Req :
        /\ Succeeded(r)
        /\ IsErr(answer[r], "collectInputs")
        /\ errlog[r] = "reader_busy"
        /\ nresp[r] = 1

\* C14 (the claim as stated): an error raised by a status fetch is not caught
\* by the outer handler: the request is not answered 500 and goes on polling
C14_FetchErrorNotCaught ==
    \A r \in Req :
        (IsProcess(r) /\ IsErr(answer[r], "retrieve")) =>
            (resp[r].statusCode # 500 /\ Polling(r))

\* C14 (amended): an error raised by a status fetch is caught by the outer
\* handler: the request is answered 500 with the processor's message, the
\* poll loop ends with it (no later fetch, no timer), and no collect-inputs
\* request is made
C14_FetchErrorCaught ==
    /\ [](\A r \in Req :
            (IsProcess(r) /\ IsErr(answer[r], "retrieve")) =>
                /\ resp[r] = [statusCode |-> 500,
                              body |-> [error |-> Str(answer[r].error)]]
                /\ pc[r] = "done" /\ timer[r] = 0
                /\ fetchErrs[r] = 1
                /\ collects[r] = 0)
    /\ [][\A r \in Req :
            (fetchErrs[r] > 0) => (fetches'[r] = fetches[r] /\ pc'[r] = "done")]_vars

\* the second fetch of a request raised, after a first that returned
\* processing
C14_Witness ==
    \E r \in Req :
        /\ IsProcess(r) /\ IsErr(answer[r], "retrieve")
        /\ seen[r] = {"processing"} /\ fetches[r] = 2
        /\ resp[r].statusCode = 500

\* a step of the cancel request r: it arrives, or its cancelAction call is
\* answered
CancelStep(r) ==
    \/ route[r] = "none" /\ route'[r] = "cancel"
    \/ route[r] = "cancel" /\ pc[r] = "awaitCancel" /\ pc'[r] = "done"

\* C15: a cancel request that completes while a process-on-reader request
\* polls does not stop the poll loop.  No step of a cancel request changes
\* anything of another request; a polling request has no response and
\* leaves the loop only on a succeeded status or on a fetch that raises, so
\* with canceled on every later fetch it never answers; and its 1.5 s timer
\* always leads to the next fetch
C15_CancelDoesNotStopPoll ==
    /\ [](\A q \in Req :
            Polling(q) =>
                /\ resp[q] = NoResp
                /\ (pc[q] = "pollDelay") => (timer[q] = 1500))
    /\ [][\A r, q \in Req :
            (r # q /\ CancelStep(r)) =>
                /\ pc'[q] = pc[q] /\ resp'[q] = resp[q] /\ nresp'[q] = nresp[q]
                /\ timer'[q] = timer[q] /\ fetches'[q] = fetches[q]
                /\ pi'[q] = pi[q] /\ seen'[q] = seen[q]]_vars
    /\ [][\A q \in Req :
            (Polling(q) /\ pc'[q] \notin {"awaitRetrieve", "pollDelay"}) =>
                \/ (pc[q] = "awaitRetrieve" /\ IsErr(answer'[q], "retrieve"))
                \/ (pc[q] = "awaitRetrieve"
                        /\ answer'[q] = [call |-> "retrieve", ok |-> TRUE]
                        /\ pi'[q] # NoPi /\ pi'[q].status = Str("succeeded"))]_vars
    /\ \A q \in Req : (pc[q] = "pollDelay") ~> (pc[q] = "awaitRetrieve")

\* a cancel answered with success beside a request that has seen canceled
\* and is fetching again, its counters long saturated
C15_Witness ==
    \E r, q \in Req :
        /\ route[r] = "cancel" /\ resp[r].statusCode = 200
        /\ IsProcess(q) /\ pc[q] = "awaitRetrieve"
        /\ "canceled" \in seen[q] /\ fetches[q] = MaxPolls /\ nonSucc[q] = MaxPolls
        /\ resp[q] = NoResp

\* C16: nothing keeps two requests from using the one reader at once.  A
\* process-on-reader request that names an identifier sends its instruction
\* to the reader on arrival, and a collect-inputs timer that fires sends its
\* request, whatever the other request is doing: so two requests for
\* different identifiers poll at once (C16_Witness), and a collect-inputs
\* call is made while another request is processing (C16_WitnessCollect)
C16_NoMutualExclusion ==
    /\ [][\A r \in Req :
            (route[r] = "none" /\ route'[r] = "process"
                /\ body'[r].payment_intent # Undef) =>
                /\ procs'[r] = 1
                /\ procArg'[r] = body'[r].payment_intent
                /\ pc'[r] = "awaitProcess"]_vars
    /\ [][\A r \in Req :
            (pc[r] = "collectDelay" /\ pc'[r] # pc[r]) =>
                (collects'[r] = 1 /\ pc'[r] = "awaitCollect")]_vars

\* both requests have instructed the reader, for different identifiers, and
\* both are polling
C16_Witness ==
    /\ IsProcess(1) /\ IsProcess(2)
    /\ procs[1] = 1 /\ procs[2] = 1
    /\ procArg[1] # procArg[2]
    /\ Polling(1) /\ Polling(2)

\* the collect-inputs call of one request in flight while the other request
\* has instructed the reader and is polling
C16_WitnessCollect ==
    \E r, q \in Req :
        /\ r # q
        /\ IsProcess(r) /\ pc[r] = "awaitCollect" /\ collects[r] = 1
        /\ IsProcess(q) /\ procs[q] = 1 /\ Polling(q)

\* C17: an identifier is never processed twice: over all process-on-reader
\* requests the instruction goes to the reader at most once per identifier,
\* and within one request the instruction and every fetch use the identifier
\* the caller supplied
C17_IdentifierNeverReused ==
    /\ \A r, q \in Req :
        (r # q /\ IsProcess(r) /\ IsProcess(q) /\ procs[r] >= 1 /\ procs[q] >= 1) =>
            procArg[r] # procArg[q]
    /\ \A r \in Req :
        IsProcess(r) =>
            /\ procs[r] <= 1
            /\ (procs[r] = 1) => (procArg[r] = body[r].payment_intent)
            /\ (fetches[r] > 0) => (fetchArg[r] = body[r].payment_intent)

\* the part of C17 about one request: one instruction at most, and the
\* instruction, every fetch and the object fetched carry the caller's
\* identifier
C17_BoundToCallerId ==
    \A r \in Req :
        IsProcess(r) =>
            /\ procs[r] <= 1
            /\ (procs[r] = 1) => (procArg[r] = body[r].payment_intent)
            /\ (fetches[r] > 0) => (fetchArg[r] = body[r].payment_intent)
            /\ (pi[r] # NoPi) => (pi[r].id = body[r].payment_intent)

\* an amount in the smallest currency unit: a whole number above zero
IsPositiveInteger(v) ==
    /\ "t" \in DOMAIN v
    /\ v.t = "number"
    /\ v.x10 > 0
    /\ v.x10 % 10 = 0

\* C18: every amount forwarded to the processor's create call is a positive
\* integer; a request whose amount is zero, negative or not an integer is
\* answered 400 and makes no create call
C18_AmountPositiveInteger ==
    \A r \in Req :
        IsCreate(r) =>
            /\ (creates[r] >= 1) => IsPositiveInteger(createArgs[r].amount)
            /\ ~IsPositiveInteger(body[r].amount) =>
                    (creates[r] = 0 /\ resp[r].statusCode = 400)

\* the part of C18 the guard `!amount` does give: an absent or zero amount is
\* answered 400 and makes no create call
C18_ZeroOrAbsentRejected ==
    \A r \in Req :
        (IsCreate(r) /\ body[r].amount \in {Undef, Num(0)}) =>
            (creates[r] = 0 /\ resp[r].statusCode = 400)

\* C19: the metadata sent to the processor has the key customer_email exactly
\* when a normalized contact email is present; then its value is that email
\* and the same address is sent as receipt_email; every other key of the
\* caller's metadata is passed through unchanged; and with no contact email
\* the metadata sent is the caller's and no receipt address is sent
C19_MetadataEmailTag ==
    \A r \in Req :
        (IsCreate(r) /\ creates[r] = 1) =>
            LET b == body[r]
                a == createArgs[r]
                callerMeta == Default(b.metadata, EmptyObj)
                e == customerEmail(b)
            IN /\ ("customer_email" \in DOMAIN a.metadata) <=> Truthy(e)
               /\ Truthy(e) =>
                    /\ "customer_email" \in DOMAIN a.metadata
                    /\ a.metadata.customer_email = e
                    /\ a.receipt_email = e
               /\ \A k \in DOMAIN callerMeta \ {"customer_email"} :
                    k \in DOMAIN a.metadata /\ a.metadata[k] = callerMeta[k]
               /\ DOMAIN a.metadata \subseteq DOMAIN callerMeta \cup {"customer_email"}
               /\ ~Truthy(e) =>
                    /\ a.metadata = callerMeta
                    /\ a.receipt_email = Undef

\* the same statement, of part_000 alone
C19_MetadataEmailTagPart000 ==
    (variant = "part_000") => C19_MetadataEmailTag

\* what part_000 does: the metadata sent is the caller's with customer_email
\* set to the contact email when there is one, and the caller's untouched,
\* a customer_email of the caller's own included, when there is none
C19_Part000Spread ==
    \A r \in Req :
        (variant = "part_000" /\ IsCreate(r) /\ creates[r] = 1) =>
            LET b == body[r]
                a == createArgs[r]
                callerMeta == Default(b.metadata, EmptyObj)
                e == customerEmail(b)
            IN IF Truthy(e)
               THEN /\ a.metadata = Spread(callerMeta, [customer_email |-> e])
                    /\ a.receipt_email = e
               ELSE /\ a.metadata = callerMeta
                    /\ a.receipt_email = Undef

====
